---- MODULE Spec2Model ----
(***************************************************************************)
(* Moodstream backend: identity resolution, playlist membership and track  *)
(* upload, modelled as interleaved request handlers.  Every `await` of a   *)
(* handler is a suspension point: one action runs the collaborator call    *)
(* and the handler's synchronous continuation up to its next await.        *)
(***************************************************************************)
EXTENDS Integers, Sequences, FiniteSets, TLC

\* ---------------------------------------------------------------- bounds
MaxReqs == 2
NumSubjects == 2
MaxPlaylists == 1
MaxTrackId == 2
MaxTracks == 1
MaxClock == 1
MaxConns == 1
MaxCalls == 2
MaxTriggers == 3

Reqs == 1..MaxReqs
Subjects == 1..NumSubjects

\* ------------------------------------------------------- plain JS values
Null == 0
NoToken == ""
BadToken == "bad"
TokenNames == <<"t1", "t2", "t3", "t4">>
Tokens == {TokenNames[s] : s \in Subjects} \cup {BadToken}

Digits == <<"0", "1", "2", "3", "4", "5", "6", "7", "8", "9">>

IsDigit(c) == \E i \in DOMAIN Digits : Digits[i] = c

DigitVal(c) == (CHOOSE i \in DOMAIN Digits : Digits[i] = c) - 1

NaN == [nan |-> TRUE, val |-> 0]

Num(n) == [nan |-> FALSE, val |-> n]

RECURSIVE SkipSpaces(_)
SkipSpaces(s) ==
  IF s # <<>> /\ Head(s) = " " THEN SkipSpaces(Tail(s)) ELSE s

RECURSIVE ParseDigits(_, _, _)
ParseDigits(s, acc, seen) ==
  IF s # <<>> /\ IsDigit(Head(s))
    THEN ParseDigits(Tail(s), acc * 10 + DigitVal(Head(s)), TRUE)
    ELSE IF seen THEN Num(acc) ELSE NaN

\* parseInt(x, 10): leading whitespace skipped, optional sign, the longest
\* digit prefix; NaN when there is none (also for undefined).
ParseInt(s) ==
  LET t == SkipSpaces(s)
  IN  IF t # <<>> /\ Head(t) = "-"
        THEN LET m == ParseDigits(Tail(t), 0, FALSE)
             IN  IF m.nan THEN NaN ELSE Num(0 - m.val)
        ELSE IF t # <<>> /\ Head(t) = "+"
          THEN ParseDigits(Tail(t), 0, FALSE)
          ELSE ParseDigits(t, 0, FALSE)

NumberIsInteger(x) == ~x.nan

RECURSIVE TrimEnd(_)
TrimEnd(s) ==
  IF s # <<>> /\ s[Len(s)] = " " THEN TrimEnd(SubSeq(s, 1, Len(s) - 1)) ELSE s

\* String.prototype.trim
Trim(s) == TrimEnd(SkipSpaces(s))

\* ------------------------------------------------------------------ state
VARIABLES
  users,           \* table users: rows [id, auth_user_id]
  playlists,       \* table playlists: rows [id, user_id, name]
  playlist_songs,  \* table playlist_songs: rows [playlist_id, track_id]
  req,             \* the in-flight playlist requests, one record per slot
  snap,            \* sequential client: tables as the current call began
  prevCall,        \* sequential client: the call before the current one
  tracks,          \* table tracks: the rows the upload route inserted
  objects,         \* object store, bucket "Tracks": the keys written
  up,              \* the in-flight upload requests, one record per slot
  dbq,             \* db.js: the pool and the calls of query in flight
  un,              \* upload route: the uploader-name resolutions in flight
  proc             \* index.js: the process and its shutdown sequence

vars == <<users, playlists, playlist_songs, req, snap, prevCall,
          tracks, objects, up, dbq, un, proc>>

NoEvent == [name |-> "none", added |-> FALSE, removed |-> FALSE]

IdleReq ==
  [pc |-> "idle", kind |-> "none", token |-> NoToken, sub |-> Null,
   userId |-> Null, why |-> "none", pl |-> NaN, tr |-> NaN, name |-> <<>>,
   status |-> 0, inserted |-> FALSE, deleted |-> 0, ev |-> NoEvent,
   emits |-> 0, emitThrew |-> FALSE, dbErr |-> FALSE, pending |-> 0]

NoKey == [prefix |-> "", ts |-> 0, name |-> <<>>]

Key(prefix, ts, name) == [prefix |-> prefix, ts |-> ts, name |-> name]

NoUrl == [src |-> "null", key |-> NoKey]

\* Mutant: the fallback path is left unset.
LocalTestPathUnset == NoUrl

\* const LOCAL_TEST_PATH = "/mnt/data/Screenshot 2025-11-25 at 10.04.22 PM.png"
LOCAL_TEST_PATH == [src |-> "local", key |-> NoKey]

\* supabase.storage.from(bucket).getPublicUrl(filePath).data.publicUrl
PublicUrl(key) == [src |-> "store", key |-> key]

\* The track object of a response or an event, before there is one
NoTrack ==
  [id |-> 0, title |-> <<>>, public_url |-> NoUrl, cover_url |-> NoUrl,
   storage_key |-> NoKey]

\* audioPut, coverPut: how the request's object-store writes ended
\* ("none" while not attempted, "ok", "failed")
IdleUpload ==
  [pc |-> "idle", title |-> <<>>, hasAudio |-> FALSE, hasCover |-> FALSE,
   token |-> NoToken, timestamp |-> 0,
   safeAudio |-> <<>>, audioUrl |-> NoUrl, audioStorageKey |-> NoKey,
   coverPath |-> NoKey, coverUrl |-> NoUrl, puts |-> 0, status |-> 0,
   rowId |-> 0, ev |-> "none", emitThrew |-> FALSE,
   audioPut |-> "none", coverPut |-> "none", track |-> NoTrack,
   evTrack |-> NoTrack, emits |-> 0]

\* db.js: const pool = new Pool({ max, ... }); no client is checked out.
\* acquired and released count, per connection, the checkouts and releases.
Conns == 1..MaxConns

IdleCall == [pc |-> "idle", client |-> 0, calls |-> 0, outcome |-> "none"]

IdlePool ==
  [out |-> {}, acquired |-> [k \in Conns |-> 0],
   released |-> [k \in Conns |-> 0], call |-> [c \in Reqs |-> IdleCall]]

\* What an upload request carries that names its uploader, and what the
\* resolution made of it.  A string that is undefined, null or "" is <<>>.
NoReply == [kind |-> "none", name |-> <<>>, email |-> <<>>, id |-> 0]

NoCookie == [kind |-> "absent", name |-> <<>>, email |-> <<>>]

IdleNaming ==
  [pc |-> "idle", field |-> <<>>, hasToken |-> FALSE, reply |-> NoReply,
   cookie |-> NoCookie, artist |-> <<>>, authUserId |-> 0,
   uploaderName |-> <<>>, artistName |-> <<>>, stored |-> <<>>]

\* let shuttingDown = false; the server listens, nothing is closed.
\* steps lists the calls the shutdown sequence made, in order; triggers and
\* ignored count the calls of gracefulShutdown and those that returned at once.
Running ==
  [shuttingDown |-> FALSE, pc |-> "running", steps |-> <<>>, triggers |-> 0,
   ignored |-> 0, first |-> "none", serverErr |-> FALSE, ioThrew |-> FALSE,
   dbThrew |-> FALSE]

Init ==
  /\ dbq = IdlePool
  /\ un = [r \in Reqs |-> IdleNaming]
  /\ proc = Running
  /\ tracks = <<>>
  /\ objects = {}
  /\ up = [r \in Reqs |-> IdleUpload]
  /\ users = <<>>
  /\ playlists = <<>>
  /\ playlist_songs = <<>>
  /\ req = [r \in Reqs |-> IdleReq]
  /\ snap = [users |-> <<>>, songs |-> <<>>]
  /\ prevCall = IdleReq

\* ------------------------------------------------------ request inputs
\* A header or cookie value as the words split(" ") yields; <<>> is undefined.
CredValues ==
  {<<>>, <<"Bearer", "">>}
    \cup {<<"Bearer", t>> : t \in Tokens} \cup {<<t>> : t \in Tokens}

Creds ==
  {[header |-> h, cookieAuth |-> <<>>, cookieToken |-> <<>>] : h \in CredValues}
    \cup {[header |-> <<>>, cookieAuth |-> <<t>>, cookieToken |-> <<>>] : t \in Tokens}
    \cup {[header |-> <<>>, cookieAuth |-> <<>>, cookieToken |-> <<t>>] : t \in Tokens}

\* req.params.playlistId, req.body.trackId as sent: characters, <<>> when missing
RawIds(max) ==
  {<<>>, <<"x">>, <<"1", "x">>, <<" ", "1">>} \cup {<<Digits[i + 1]>> : i \in 1..max}

\* req.body.name as sent: a string or something else
RawNames ==
  {[isString |-> FALSE, chars |-> <<>>]}
    \cup {[isString |-> TRUE, chars |-> c] :
            c \in {<<>>, <<" ">>, <<"a">>, <<" ", "a", " ">>}}

Kinds == {"list", "create", "add", "remove"}

\* ------------------------------------------------------ identity resolver
\* const authHeader = headers.authorization || cookies.authorization || cookies.token
\* const token = authHeader?.split?.(" ")?.[1] || authHeader
ExtractToken(c) ==
  LET a == IF c.header # <<>> THEN c.header
           ELSE IF c.cookieAuth # <<>> THEN c.cookieAuth ELSE c.cookieToken
  IN  IF a = <<>> THEN NoToken
      ELSE IF Len(a) >= 2 /\ a[2] # "" THEN a[2]
      ELSE IF Len(a) = 1 THEN a[1]
      ELSE BadToken

\* supabase.auth.getUser(token).catch((e) => ({ error: e })): what the provider
\* can answer; only a token it issued can come back with its subject.
ProviderReplies(token) ==
  {[threw |-> TRUE, error |-> TRUE, user |-> Null],
   [threw |-> FALSE, error |-> TRUE, user |-> Null],
   [threw |-> FALSE, error |-> FALSE, user |-> Null]}
    \cup {[threw |-> FALSE, error |-> FALSE, user |-> s] :
            s \in {x \in Subjects : TokenNames[x] = token}}

\* if (error || !data?.user) return null
ProviderRejected(resp) == resp.error \/ resp.user = Null

RejectReason(resp) ==
  IF resp.threw THEN "provider-threw"
  ELSE IF resp.error THEN "provider-error" ELSE "no-subject"

\* Mutant: the lookup compares the wrong column and never finds the row.
LookupUserNever(sub) == Null

\* SELECT id FROM users WHERE auth_user_id = $1 LIMIT 1
LookupUser(sub) ==
  LET hits == {i \in DOMAIN users : users[i].auth_user_id = sub}
  IN  IF hits = {} THEN Null
      ELSE users[CHOOSE i \in hits : \A j \in hits : i <= j].id

\* Mutant: the users table carries no uniqueness constraint.
UniqueViolationOff(sub) == FALSE

\* The uniqueness constraint on users.auth_user_id rejects a second row.
UniqueViolation(sub) == \E i \in DOMAIN users : users[i].auth_user_id = sub

\* Mutant: the handler forgets the 401 check.
UnauthenticatedNever(userId) == FALSE

\* if (!userId) return res.status(401)
Unauthenticated(userId) == userId = Null

\* res.status(st).json(...): the request is over; what stays is what it did.
Respond(q, st) ==
  [q EXCEPT !.pc = "done", !.status = st, !.token = NoToken, !.pending = 0]

\* typeof req.body?.name === "string" ? req.body.name.trim() : ""
CreateName(raw) == IF raw.isString THEN Trim(raw.chars) ELSE <<>>

\* POST /: if (!name) return 400, else the insert is awaited
AfterAuthCreate(q, name) ==
  IF name = <<>> THEN Respond(q, 400)
  ELSE [q EXCEPT !.pc = "insertPlaylist", !.name = name]

\* Mutant: the update is announced before the ids are validated.
AfterAuthMemberBroadcastsFirst(q, playlistId, trackId) ==
  IF ~NumberIsInteger(playlistId) \/ ~NumberIsInteger(trackId)
    THEN Respond([q EXCEPT !.pl = playlistId, !.tr = trackId,
                           !.ev = [name |-> "playlist-updated",
                                   added |-> FALSE, removed |-> FALSE],
                           !.emits = @ + 1], 400)
    ELSE [q EXCEPT !.pl = playlistId, !.tr = trackId, !.pc = "checkOwner"]

\* add/remove: parseInt both ids, 400 unless both are integers, else the
\* ownership lookup is awaited
AfterAuthMember(q, playlistId, trackId) ==
  IF ~NumberIsInteger(playlistId) \/ ~NumberIsInteger(trackId)
    THEN Respond([q EXCEPT !.pl = playlistId, !.tr = trackId], 400)
    ELSE [q EXCEPT !.pl = playlistId, !.tr = trackId, !.pc = "checkOwner"]

\* The handler from the return of getLocalUserIdFromToken to its next await;
\* the body and path parameters are drawn where the handler first reads them.
AfterAuth(q) ==
  IF Unauthenticated(q.userId) THEN {Respond(q, 401)}
  ELSE IF q.kind = "list" THEN {[q EXCEPT !.pc = "listPlaylists"]}
  ELSE IF q.kind = "create"
    THEN {AfterAuthCreate(q, CreateName(raw)) : raw \in RawNames}
    ELSE {AfterAuthMember(q, ParseInt(p), ParseInt(t)) :
            p \in RawIds(MaxPlaylists), t \in RawIds(MaxTrackId)}

\* A request arrives and runs to its first await: if (!token) return null.
Arrive(r, kind, token) ==
  /\ req[r].pc \in {"idle", "done"}
  /\ \E q \in (IF token = NoToken
                 THEN AfterAuth([IdleReq EXCEPT !.kind = kind, !.why = "no-token"])
                 ELSE {[IdleReq EXCEPT !.kind = kind, !.token = token,
                                       !.pc = "getUser"]}) :
       req' = [req EXCEPT ![r] = q]
  /\ UNCHANGED <<dbq, un, proc, users, playlists, playlist_songs>>

Start(r) ==
  /\ \E kind \in Kinds, token \in {ExtractToken(c) : c \in Creds} :
       Arrive(r, kind, token)
  /\ UNCHANGED <<dbq, un, proc, snap, prevCall, tracks, objects, up>>

GetUserReturn(r) ==
  /\ req[r].pc = "getUser"
  /\ \E resp \in ProviderReplies(req[r].token) :
       \E q \in (IF ProviderRejected(resp)
                   THEN AfterAuth([req[r] EXCEPT !.why = RejectReason(resp)])
                   ELSE {[req[r] EXCEPT !.sub = resp.user, !.token = NoToken,
                                        !.pc = "selectUser"]}) :
         req' = [req EXCEPT ![r] = q]
  /\ UNCHANGED <<dbq, un, proc, users, playlists, playlist_songs, snap, prevCall, tracks, objects, up>>

\* A statement that throws inside getLocalUserIdFromToken: catch, return null.
ResolverCaught(q, why) == AfterAuth([q EXCEPT !.why = why, !.dbErr = TRUE])

SelectUser(r) ==
  /\ req[r].pc = "selectUser"
  /\ \E q \in ResolverCaught(req[r], "db-error")
            \cup (IF LookupUser(req[r].sub) # Null
                    THEN AfterAuth([req[r] EXCEPT
                                      !.userId = LookupUser(req[r].sub)])
                    ELSE {[req[r] EXCEPT !.pc = "insertUser"]}) :
       req' = [req EXCEPT ![r] = q]
  /\ UNCHANGED <<dbq, un, proc, users, playlists, playlist_songs, snap, prevCall, tracks, objects, up>>

\* INSERT INTO users (name, email, auth_user_id) ... RETURNING id
InsertUser(r) ==
  /\ req[r].pc = "insertUser"
  /\ \/ /\ \E q \in ResolverCaught(req[r], "db-error") :
             req' = [req EXCEPT ![r] = q]
        /\ UNCHANGED users
     \/ /\ UniqueViolation(req[r].sub)
        /\ \E q \in ResolverCaught(req[r], "duplicate") :
             req' = [req EXCEPT ![r] = q]
        /\ UNCHANGED users
     \/ /\ ~UniqueViolation(req[r].sub)
        /\ users' = Append(users, [id |-> Len(users) + 1,
                                   auth_user_id |-> req[r].sub])
        /\ \E q \in AfterAuth([req[r] EXCEPT !.userId = Len(users) + 1]) :
             req' = [req EXCEPT ![r] = q]
  /\ UNCHANGED <<dbq, un, proc, playlists, playlist_songs, snap, prevCall, tracks, objects, up>>

\* ------------------------------------------------------- playlist manager
\* try { if (io) io.emit(name, payload) } catch { console.warn }: the event is
\* handed to the channel, whose delivery is best effort; the call returns or
\* throws, and on a throw the handler logs and carries on.
Emit(q, ev, ok) ==
  [q EXCEPT !.ev = ev, !.emits = @ + 1, !.emitThrew = ~ok]

\* Mutant: the catch logs the error and sends nothing.
HandlerCaughtSilent(q) == [q EXCEPT !.dbErr = TRUE, !.pc = "hung"]

\* A statement that throws inside a handler's try: catch, answer 500.
HandlerCaught(q) == Respond([q EXCEPT !.dbErr = TRUE], 500)

\* Mutant: the emit is not wrapped in its own try/catch, so its throw lands in
\* the handler's catch.
BroadcastUnguarded(q, ev, ok, st) ==
  IF ok THEN Respond(Emit(q, ev, TRUE), st) ELSE HandlerCaught(Emit(q, ev, FALSE))

\* The guarded emit, then the success response, whatever the emit did.
Broadcast(q, ev, ok, st) == Respond(Emit(q, ev, ok), st)

\* io.emit("playlist-created", { playlist: created, userId })
CreatedEvent == [NoEvent EXCEPT !.name = "playlist-created"]

\* Mutant: the event always claims a new row.
AddedEventAlwaysTrue(returned) ==
  [NoEvent EXCEPT !.name = "playlist-updated", !.added = TRUE]

\* io.emit("playlist-updated", { playlistId, trackId,
\*                               added: insertRes.rows?.length > 0 })
AddedEvent(returned) ==
  [NoEvent EXCEPT !.name = "playlist-updated", !.added = returned > 0]

\* Mutant: the event is flagged removed only when a row was deleted.
RemovedEventIfDeleted(rowCount) ==
  [NoEvent EXCEPT !.name = "playlist-updated", !.removed = rowCount > 0]

\* io.emit("playlist-updated", { playlistId, trackId, removed: true })
RemovedEvent(rowCount) ==
  [NoEvent EXCEPT !.name = "playlist-updated", !.removed = TRUE]

\* SELECT user_id FROM playlists WHERE id = $1 LIMIT 1
PlaylistRows(id) == {i \in DOMAIN playlists : playlists[i].id = id}

\* Mutant: only the existence of the playlist is checked, not its owner.
NotOwnerMissingOnly(id, userId) == PlaylistRows(id) = {}

\* Mutant: only the owner of an existing playlist is compared.
NotOwnerExistingOnly(id, userId) ==
  /\ PlaylistRows(id) # {}
  /\ playlists[CHOOSE i \in PlaylistRows(id) : TRUE].user_id # userId

\* if (!plRes.rows[0] || plRes.rows[0].user_id !== userId) return 403
NotOwner(id, userId) ==
  \/ PlaylistRows(id) = {}
  \/ playlists[CHOOSE i \in PlaylistRows(id) : TRUE].user_id # userId

\* Mutant: a plain INSERT, without ON CONFLICT DO NOTHING.
SongsInsertNoConflict(songs, p, t) ==
  [rows |-> Append(songs, [playlist_id |-> p, track_id |-> t]), returned |-> 1]

\* Mutant: the conflict is tolerated but a row is reported all the same.
SongsInsertAlwaysReturns(songs, p, t) ==
  IF \E i \in DOMAIN songs : songs[i].playlist_id = p /\ songs[i].track_id = t
    THEN [rows |-> songs, returned |-> 1]
    ELSE [rows |-> Append(songs, [playlist_id |-> p, track_id |-> t]),
          returned |-> 1]

\* Mutant: the row is inserted but RETURNING is dropped: no row comes back.
SongsInsertReportsNone(songs, p, t) ==
  IF \E i \in DOMAIN songs : songs[i].playlist_id = p /\ songs[i].track_id = t
    THEN [rows |-> songs, returned |-> 0]
    ELSE [rows |-> Append(songs, [playlist_id |-> p, track_id |-> t]),
          returned |-> 0]

\* INSERT INTO playlist_songs ... ON CONFLICT (playlist_id, track_id) DO NOTHING
\* RETURNING *
SongsInsert(songs, p, t) ==
  IF \E i \in DOMAIN songs : songs[i].playlist_id = p /\ songs[i].track_id = t
    THEN [rows |-> songs, returned |-> 0]
    ELSE [rows |-> Append(songs, [playlist_id |-> p, track_id |-> t]),
          returned |-> 1]

\* Mutant: the WHERE clause forgets track_id and empties the playlist.
SongsDeleteWholePlaylist(songs, p, t) ==
  LET Keep(row) == row.playlist_id # p
      left == SelectSeq(songs, Keep)
  IN  [rows |-> left, rowCount |-> Len(songs) - Len(left)]

\* DELETE FROM playlist_songs WHERE playlist_id = $1 AND track_id = $2
SongsDelete(songs, p, t) ==
  LET Keep(row) == ~(row.playlist_id = p /\ row.track_id = t)
      left == SelectSeq(songs, Keep)
  IN  [rows |-> left, rowCount |-> Len(songs) - Len(left)]

ListPlaylists(r) ==
  /\ req[r].pc = "listPlaylists"
  /\ \/ req' = [req EXCEPT ![r] = HandlerCaught(@)]
     \/ LET n == Cardinality({i \in DOMAIN playlists :
                                playlists[i].user_id = req[r].userId})
        IN  req' = [req EXCEPT ![r] =
                      IF n = 0 THEN Respond(@, 200)
                      ELSE [@ EXCEPT !.pc = "listTracks", !.pending = n]]
  /\ UNCHANGED <<dbq, un, proc, users, playlists, playlist_songs, snap, prevCall, tracks, objects, up>>

\* Promise.all over one track query per playlist
ListTracks(r) ==
  /\ req[r].pc = "listTracks"
  /\ \/ req' = [req EXCEPT ![r] = HandlerCaught([@ EXCEPT !.pending = 0])]
     \/ req' = [req EXCEPT ![r] =
                  IF @.pending = 1 THEN Respond([@ EXCEPT !.pending = 0], 200)
                  ELSE [@ EXCEPT !.pending = @ - 1]]
  /\ UNCHANGED <<dbq, un, proc, users, playlists, playlist_songs, snap, prevCall, tracks, objects, up>>

\* Mutant: the row is inserted for the first user, whoever calls.
NewPlaylistRowFirstUser(id, userId, name) ==
  [id |-> id, user_id |-> 1, name |-> name]

\* INSERT INTO playlists (user_id, name) VALUES ($1, $2), [userId, name]
NewPlaylistRow(id, userId, name) ==
  [id |-> id, user_id |-> userId, name |-> name]

\* INSERT INTO playlists (user_id, name) ... RETURNING id, name, created_at
InsertPlaylist(r) ==
  /\ req[r].pc = "insertPlaylist"
  /\ \/ /\ req' = [req EXCEPT ![r] = HandlerCaught(@)]
        /\ UNCHANGED playlists
     \/ /\ Len(playlists) < MaxPlaylists
        /\ playlists' = Append(playlists,
                               NewPlaylistRow(Len(playlists) + 1,
                                              req[r].userId, req[r].name))
        /\ \E ok \in BOOLEAN :
             req' = [req EXCEPT ![r] = Broadcast(@, CreatedEvent, ok, 201)]
  /\ UNCHANGED <<dbq, un, proc, users, playlist_songs, snap, prevCall, tracks, objects, up>>

CheckOwner(r) ==
  /\ req[r].pc = "checkOwner"
  /\ \/ req' = [req EXCEPT ![r] = HandlerCaught(@)]
     \/ req' = [req EXCEPT ![r] =
                  IF NotOwner(@.pl.val, @.userId) THEN Respond(@, 403)
                  ELSE [@ EXCEPT !.pc = IF req[r].kind = "add" THEN "insertSong"
                                        ELSE "deleteSong"]]
  /\ UNCHANGED <<dbq, un, proc, users, playlists, playlist_songs, snap, prevCall, tracks, objects, up>>

InsertSong(r) ==
  /\ req[r].pc = "insertSong"
  /\ \/ /\ req' = [req EXCEPT ![r] = HandlerCaught(@)]
        /\ UNCHANGED playlist_songs
     \/ LET res == SongsInsert(playlist_songs, req[r].pl.val, req[r].tr.val)
        IN  /\ playlist_songs' = res.rows
            /\ \E ok \in BOOLEAN :
                 req' = [req EXCEPT ![r] =
                           Broadcast([@ EXCEPT !.inserted = res.returned > 0],
                                     AddedEvent(res.returned), ok, 200)]
  /\ UNCHANGED <<dbq, un, proc, users, playlists, snap, prevCall, tracks, objects, up>>

DeleteSong(r) ==
  /\ req[r].pc = "deleteSong"
  /\ \/ /\ req' = [req EXCEPT ![r] = HandlerCaught(@)]
        /\ UNCHANGED playlist_songs
     \/ LET res == SongsDelete(playlist_songs, req[r].pl.val, req[r].tr.val)
        IN  /\ playlist_songs' = res.rows
            /\ \E ok \in BOOLEAN :
                 req' = [req EXCEPT ![r] =
                           Broadcast([@ EXCEPT !.deleted = res.rowCount],
                                     RemovedEvent(res.rowCount), ok, 200)]
  /\ UNCHANGED <<dbq, un, proc, users, playlists, snap, prevCall, tracks, objects, up>>

Next ==
  \/ \E r \in Reqs : Start(r)
  \/ \E r \in Reqs : GetUserReturn(r)
  \/ \E r \in Reqs : SelectUser(r)
  \/ \E r \in Reqs : InsertUser(r)
  \/ \E r \in Reqs : ListPlaylists(r)
  \/ \E r \in Reqs : ListTracks(r)
  \/ \E r \in Reqs : InsertPlaylist(r)
  \/ \E r \in Reqs : CheckOwner(r)
  \/ \E r \in Reqs : InsertSong(r)
  \/ \E r \in Reqs : DeleteSong(r)

Spec == Init /\ [][Next]_vars

\* One client issuing its calls in sequence: a call starts only when no other
\* is in flight; snap and prevCall remember the tables as the call began and
\* the call that came before it.  Its calls all go through the first slot.
SeqReqs == {r \in Reqs : \A o \in Reqs : r <= o}

SeqStart(r) ==
  /\ \A o \in Reqs \ {r} : req[o].pc = "idle"
  /\ \E kind \in Kinds, token \in {ExtractToken(c) : c \in Creds} :
       Arrive(r, kind, token)
  /\ snap' = [users |-> users, songs |-> playlist_songs]
  /\ prevCall' = req[r]
  /\ UNCHANGED <<dbq, un, proc, tracks, objects, up>>

SeqNext ==
  \/ \E r \in SeqReqs : SeqStart(r)
  \/ \E r \in SeqReqs : GetUserReturn(r)
  \/ \E r \in SeqReqs : SelectUser(r)
  \/ \E r \in SeqReqs : InsertUser(r)
  \/ \E r \in SeqReqs : ListPlaylists(r)
  \/ \E r \in SeqReqs : ListTracks(r)
  \/ \E r \in SeqReqs : InsertPlaylist(r)
  \/ \E r \in SeqReqs : CheckOwner(r)
  \/ \E r \in SeqReqs : InsertSong(r)
  \/ \E r \in SeqReqs : DeleteSong(r)

SpecSeq == Init /\ [][SeqNext]_vars

\* ------------------------------------------------------ content ingestion
\* req.body.title as sent: characters, or nothing at all
RawTitles ==
  {[present |-> FALSE, chars |-> <<>>]}
    \cup {[present |-> TRUE, chars |-> c] :
            c \in {<<>>, <<" ">>, <<"a">>, <<" ", "a">>}}

\* file.originalname as sent
RawFileNames == {<<>>, <<"a">>, <<"a", "!">>}

SafeChars == {"a", "b", "_", "-", "."} \cup {Digits[i] : i \in DOMAIN Digits}

RECURSIVE SpacesToUnderscore(_)
SpacesToUnderscore(s) ==
  IF s = <<>> THEN <<>>
  ELSE IF Head(s) = " "
    THEN <<"_">> \o SpacesToUnderscore(SkipSpaces(s))
    ELSE <<Head(s)>> \o SpacesToUnderscore(Tail(s))

\* String(name || "file").replace(/\s+/g, "_").replace(/[^a-zA-Z0-9_\-\.]/g, "")
makeSafeName(name) ==
  LET Safe(c) == c \in SafeChars
  IN  SelectSeq(SpacesToUnderscore(IF name = <<>>
                                     THEN <<"f", "i", "l", "e">> ELSE name),
                Safe)

\* Mutant: the title is tested as sent, without trim().
UploadTitleUntrimmed(raw) == IF raw.present THEN raw.chars ELSE <<>>

\* const title = (req.body?.title || "").trim()
UploadTitle(raw) == IF raw.present THEN Trim(raw.chars) ELSE <<>>

\* const token = req.headers.authorization?.split(" ")[1]
UploadToken(header) == IF Len(header) >= 2 THEN header[2] ELSE NoToken

\* res.json(...) / sendJsonError(...): the request is over; what stays is what
\* it was asked, what it did and the track it answered with.
UploadRespond(q, st) ==
  [q EXCEPT !.pc = "done", !.status = st, !.token = NoToken,
            !.timestamp = 0, !.safeAudio = <<>>, !.coverPath = NoKey,
            !.audioUrl = IF st = 200 THEN @ ELSE NoUrl,
            !.audioStorageKey = IF st = 200 THEN @ ELSE NoKey,
            !.coverUrl = IF st = 200 THEN @ ELSE NoUrl]

\* const timestamp = Date.now(); the audio path; then uploadBuffer is awaited
BeginAudio(q) ==
  {[q EXCEPT !.pc = "uploadAudio",
             !.token = NoToken,
             !.timestamp = ts,
             !.safeAudio = makeSafeName(name),
             !.audioStorageKey = Key("tracks", ts, makeSafeName(name))] :
     ts \in 1..MaxClock, name \in RawFileNames}

\* The handler up to its first await: if (!audio || !title) return 400.
UploadArrivals ==
  LET New(raw, a, c, h) ==
        [IdleUpload EXCEPT !.title = UploadTitle(raw), !.hasAudio = a,
                           !.hasCover = c, !.token = UploadToken(h)]
      AfterValidation(q) ==
        IF ~q.hasAudio \/ q.title = <<>> THEN {UploadRespond(q, 400)}
        ELSE IF q.token # NoToken THEN {[q EXCEPT !.pc = "getUser"]}
        ELSE BeginAudio(q)
  IN  UNION {AfterValidation(New(raw, a, c, h)) :
               raw \in RawTitles, a \in BOOLEAN, c \in BOOLEAN,
               h \in CredValues}

UStart(r) ==
  /\ up[r].pc \in {"idle", "done"}
  /\ \E q \in UploadArrivals : up' = [up EXCEPT ![r] = q]
  /\ UNCHANGED <<dbq, un, proc, tracks, objects, users, playlists, playlist_songs, req,
                 snap, prevCall>>

\* const { data: userData } = await supabase.auth.getUser(token), in try/catch
UGetUser(r) ==
  /\ up[r].pc = "getUser"
  /\ \E resp \in ProviderReplies(up[r].token) :
       \E q \in BeginAudio(up[r]) :
         up' = [up EXCEPT ![r] = q]
  /\ UNCHANGED <<dbq, un, proc, tracks, objects, users, playlists, playlist_songs, req,
                 snap, prevCall>>

\* Mutant: the cover upload is not awaited before the insert.
AfterAudioSkipsCover(q) ==
  {[q EXCEPT !.coverUrl = LOCAL_TEST_PATH, !.pc = "insertTrack"]}

\* Cover step reached after the audio step: upload it, or take the fallback.
AfterAudio(q) ==
  IF q.hasCover THEN {[q EXCEPT !.pc = "uploadCover"]}
  ELSE {[q EXCEPT !.coverUrl = LOCAL_TEST_PATH, !.pc = "insertTrack"]}

\* Mutant: the write is made with upsert: true.
StoreAcceptsUpsert(key) == TRUE

\* uploadBuffer(..., { upsert: false }): the store refuses a key it holds
StoreAccepts(key) == key \notin objects

\* Mutant: the catch leaves the storage key as it was.
AudioFallbackKeySame(ts, safe) == Key("tracks", ts, safe)

\* audioStorageKey = `debug/${timestamp}_${safeAudio}`
AudioFallbackKey(ts, safe) == Key("debug", ts, safe)

UUploadAudio(r) ==
  /\ up[r].pc = "uploadAudio"
  /\ \/ /\ StoreAccepts(up[r].audioStorageKey)
        /\ objects' = objects \cup {up[r].audioStorageKey}
        /\ \E q \in AfterAudio([up[r] EXCEPT
                                  !.puts = @ + 1,
                                  !.audioPut = "ok",
                                  !.audioUrl = PublicUrl(up[r].audioStorageKey)]) :
             up' = [up EXCEPT ![r] = q]
     \/ /\ UNCHANGED objects
        /\ \E q \in AfterAudio([up[r] EXCEPT
                                  !.puts = @ + 1,
                                  !.audioPut = "failed",
                                  !.audioUrl = LOCAL_TEST_PATH,
                                  !.audioStorageKey =
                                     AudioFallbackKey(up[r].timestamp,
                                                      up[r].safeAudio)]) :
             up' = [up EXCEPT ![r] = q]
  /\ UNCHANGED <<dbq, un, proc, tracks, users, playlists, playlist_songs, req, snap, prevCall>>

UUploadCover(r) ==
  /\ up[r].pc = "uploadCover"
  /\ \E name \in RawFileNames :
       LET path == Key("covers", up[r].timestamp, makeSafeName(name))
       IN  \/ /\ StoreAccepts(path)
              /\ objects' = objects \cup {path}
              /\ up' = [up EXCEPT ![r] =
                          [@ EXCEPT !.puts = @ + 1, !.coverPath = path,
                                    !.coverPut = "ok",
                                    !.coverUrl = PublicUrl(path),
                                    !.pc = "insertTrack"]]
           \/ /\ UNCHANGED objects
              /\ up' = [up EXCEPT ![r] =
                          [@ EXCEPT !.puts = @ + 1,
                                    !.coverPut = "failed",
                                    !.coverPath = Key("debug/covers",
                                                      up[r].timestamp,
                                                      makeSafeName(name)),
                                    !.coverUrl = LOCAL_TEST_PATH,
                                    !.pc = "insertTrack"]]
  /\ UNCHANGED <<dbq, un, proc, tracks, users, playlists, playlist_songs, req, snap, prevCall>>

\* a || b || LOCAL_TEST_PATH
TrackUrl(insertedUrl, localUrl) ==
  IF insertedUrl # NoUrl THEN insertedUrl
  ELSE IF localUrl # NoUrl THEN localUrl ELSE LOCAL_TEST_PATH

\* const track = { id: inserted.id, ..., public_url: inserted.public_url ||
\* audioUrl || LOCAL_TEST_PATH, ... }
TrackObject(inserted, q) ==
  [id |-> inserted.id,
   title |-> inserted.title,
   public_url |-> TrackUrl(inserted.public_url, q.audioUrl),
   cover_url |-> TrackUrl(inserted.cover_url, q.coverUrl),
   storage_key |-> IF inserted.storage_key # NoKey THEN inserted.storage_key
                   ELSE q.audioStorageKey]

\* Mutant: the handler forgets the broadcast.
UploadEmitSkipped(q, track, ok) == q

\* try { if (io) io.emit("new-track", track) } catch { console.warn }
UploadEmit(q, track, ok) ==
  [q EXCEPT !.ev = "new-track", !.evTrack = track, !.emits = @ + 1,
            !.emitThrew = ~ok]

\* Mutant: the insert's catch logs and falls through to the success response.
InsertFailedAnswersOk(q) == UploadRespond(q, 200)

\* catch (err) { return sendJsonError(res, 500, { error: "Database insert
\* failed", ... }) }
InsertFailed(q) == UploadRespond(q, 500)

\* INSERT INTO tracks (...) RETURNING *, the new-track event, the response
UInsertTrack(r) ==
  /\ up[r].pc = "insertTrack"
  /\ \/ /\ up' = [up EXCEPT ![r] = InsertFailed(@)]
        /\ UNCHANGED tracks
     \/ /\ Len(tracks) < MaxTracks
        /\ tracks' = Append(tracks,
                            [id |-> Len(tracks) + 1,
                             title |-> up[r].title,
                             storage_key |-> up[r].audioStorageKey,
                             public_url |-> up[r].audioUrl,
                             cover_path |-> up[r].coverPath,
                             cover_url |-> up[r].coverUrl])
        /\ \E ok \in BOOLEAN :
             LET track == TrackObject(tracks'[Len(tracks')], up[r])
             IN  up' = [up EXCEPT ![r] =
                          UploadRespond(
                            UploadEmit([@ EXCEPT !.rowId = Len(tracks) + 1,
                                                 !.track = track],
                                       track, ok), 200)]
  /\ UNCHANGED <<dbq, un, proc, objects, users, playlists, playlist_songs, req, snap, prevCall>>

UploadNext ==
  \/ \E r \in Reqs : UStart(r)
  \/ \E r \in Reqs : UGetUser(r)
  \/ \E r \in Reqs : UUploadAudio(r)
  \/ \E r \in Reqs : UUploadCover(r)
  \/ \E r \in Reqs : UInsertTrack(r)

SpecUpload == Init /\ [][UploadNext]_vars

\* Adds racing for one pair: playlists are created and tracks added, each
\* slot carries at most one add, which arrives once a playlist exists, and
\* nothing is removed.  snap holds the tables as the latest request began.
RaceStart(r) ==
  /\ req[r].kind # "add"
  /\ \E kind \in {"create", "add"}, token \in {ExtractToken(c) : c \in Creds} :
       /\ kind = "add" => playlists # <<>>
       /\ Arrive(r, kind, token)
  /\ snap' = [users |-> users, songs |-> playlist_songs]
  /\ UNCHANGED <<dbq, un, proc, prevCall, tracks, objects, up>>

RaceNext ==
  \/ \E r \in Reqs : RaceStart(r)
  \/ \E r \in Reqs : GetUserReturn(r)
  \/ \E r \in Reqs : SelectUser(r)
  \/ \E r \in Reqs : InsertUser(r)
  \/ \E r \in Reqs : InsertPlaylist(r)
  \/ \E r \in Reqs : CheckOwner(r)
  \/ \E r \in Reqs : InsertSong(r)

SpecRace == Init /\ [][RaceNext]_vars

\* -------------------------------------------------------- the two routers
\* The playlist routes and the upload route share no table and no request
\* state: a step of one leaves everything of the other unchanged.  A property
\* of both is therefore checked over the runs of either router alone.
PlaylistsQuiet ==
  /\ users = <<>> /\ playlists = <<>> /\ playlist_songs = <<>>
  /\ \A r \in Reqs : req[r] = IdleReq

UploadsQuiet ==
  /\ tracks = <<>> /\ objects = {}
  /\ \A r \in Reqs : up[r] = IdleUpload

RoutersNext ==
  \/ \E r \in Reqs : UploadsQuiet /\ Start(r)
  \/ \E r \in Reqs : UploadsQuiet /\ GetUserReturn(r)
  \/ \E r \in Reqs : UploadsQuiet /\ SelectUser(r)
  \/ \E r \in Reqs : UploadsQuiet /\ InsertUser(r)
  \/ \E r \in Reqs : UploadsQuiet /\ ListPlaylists(r)
  \/ \E r \in Reqs : UploadsQuiet /\ ListTracks(r)
  \/ \E r \in Reqs : UploadsQuiet /\ InsertPlaylist(r)
  \/ \E r \in Reqs : UploadsQuiet /\ CheckOwner(r)
  \/ \E r \in Reqs : UploadsQuiet /\ InsertSong(r)
  \/ \E r \in Reqs : UploadsQuiet /\ DeleteSong(r)
  \/ \E r \in Reqs : PlaylistsQuiet /\ UStart(r)
  \/ \E r \in Reqs : PlaylistsQuiet /\ UGetUser(r)
  \/ \E r \in Reqs : PlaylistsQuiet /\ UUploadAudio(r)
  \/ \E r \in Reqs : PlaylistsQuiet /\ UUploadCover(r)
  \/ \E r \in Reqs : PlaylistsQuiet /\ UInsertTrack(r)

SpecRouters == Init /\ [][RoutersNext]_vars

\* The awaited call of request slot r returns or throws and the handler runs
\* on to its next await or to its response.
PlaylistReturn(r) ==
  /\ UploadsQuiet
  /\ \/ GetUserReturn(r) \/ SelectUser(r) \/ InsertUser(r)
     \/ ListPlaylists(r) \/ ListTracks(r) \/ InsertPlaylist(r)
     \/ CheckOwner(r) \/ InsertSong(r) \/ DeleteSong(r)

UploadReturn(r) ==
  /\ PlaylistsQuiet
  /\ UGetUser(r) \/ UUploadAudio(r) \/ UUploadCover(r) \/ UInsertTrack(r)

\* No handler waits on another request: a request's progress is followed on
\* one slot, through every answer its calls can give.
LiveNext ==
  \/ \E r \in SeqReqs : UploadsQuiet /\ Start(r)
  \/ \E r \in SeqReqs : PlaylistReturn(r)
  \/ \E r \in SeqReqs : PlaylistsQuiet /\ UStart(r)
  \/ \E r \in SeqReqs : UploadReturn(r)

\* Every awaited collaborator call eventually returns or throws.
CallsReturn ==
  \A r \in SeqReqs : WF_vars(PlaylistReturn(r)) /\ WF_vars(UploadReturn(r))

SpecLive == Init /\ [][LiveNext]_vars /\ CallsReturn

\* ------------------------------------------------------- db.js: query
\* const client = await pool.connect(): a free connection is checked out
Checkout(d, c, k) ==
  [d EXCEPT !.out = @ \cup {k},
            !.acquired[k] = @ + 1,
            !.call[c] = [@ EXCEPT !.pc = "query", !.client = k]]

\* pool.connect() rejects (no connection within connectionTimeoutMillis, or
\* none can be opened): query throws before its try, holding nothing
ConnectFailed(d, c) ==
  [d EXCEPT !.call[c] = [@ EXCEPT !.pc = "done", !.outcome = "connect-failed"]]

\* client.release()
Release(d, k) == [d EXCEPT !.out = @ \ {k}, !.released[k] = @ + 1]

\* Mutant: release() follows the statement inside the try, with no finally.
AfterStatementNoFinally(d, c, ok) ==
  LET e == [d EXCEPT !.call[c] =
                       [@ EXCEPT !.pc = "done", !.client = 0,
                                 !.outcome = IF ok THEN "returned" ELSE "threw"]]
  IN  IF ok THEN Release(e, d.call[c].client) ELSE e

\* try { return await client.query(...) } catch (err) { throw err }
\* finally { client.release() }
AfterStatement(d, c, ok) ==
  Release([d EXCEPT !.call[c] =
                      [@ EXCEPT !.pc = "done", !.client = 0,
                                !.outcome = IF ok THEN "returned" ELSE "threw"]],
          d.call[c].client)

\* A caller enters query(text, params) and awaits pool.connect()
QStart(c) ==
  /\ dbq.call[c].pc \in {"idle", "done"}
  /\ dbq.call[c].calls < MaxCalls
  /\ dbq' = [dbq EXCEPT !.call[c] =
                [@ EXCEPT !.pc = "connect", !.client = 0, !.calls = @ + 1,
                          !.outcome = "none"]]
  /\ UNCHANGED <<users, playlists, playlist_songs, req, snap, prevCall,
                 tracks, objects, up, un, proc>>

QConnect(c) ==
  /\ dbq.call[c].pc = "connect"
  /\ \/ \E k \in Conns \ dbq.out : dbq' = Checkout(dbq, c, k)
     \/ dbq' = ConnectFailed(dbq, c)
  /\ UNCHANGED <<users, playlists, playlist_songs, req, snap, prevCall,
                 tracks, objects, up, un, proc>>

QStatement(c) ==
  /\ dbq.call[c].pc = "query"
  /\ \E ok \in BOOLEAN : dbq' = AfterStatement(dbq, c, ok)
  /\ UNCHANGED <<users, playlists, playlist_songs, req, snap, prevCall,
                 tracks, objects, up, un, proc>>

PoolNext ==
  \/ \E c \in Reqs : QStart(c)
  \/ \E c \in Reqs : QConnect(c)
  \/ \E c \in Reqs : QStatement(c)

SpecPool == Init /\ [][PoolNext]_vars

\* ------------------------------------------- upload.js: the uploader name
\* req.body.uploader_name and req.body.artist_name as sent
FieldValues(c) == {<<>>, <<" ">>, <<c>>, <<" ", c>>}

\* { data: { user } } of supabase.auth.getUser(token): the call throws, or
\* answers without a user, or with one whose name and email may be missing
NameReplies ==
  {[NoReply EXCEPT !.kind = "threw"], [NoReply EXCEPT !.kind = "nouser"]}
    \cup {[kind |-> "user", name |-> n, email |-> e, id |-> 1] :
             n \in {<<>>, <<" ">>, <<"p">>}, e \in {<<>>, <<"e">>}}

\* req.cookies.user: not sent, not JSON, or an object
Cookies ==
  {NoCookie, [NoCookie EXCEPT !.kind = "unparseable"]}
    \cup {[kind |-> "object", name |-> n, email |-> e] :
             n \in {<<>>, <<"c">>}, e \in {<<>>, <<"m">>}}

UnknownArtist == <<"U">>

\* a || b on strings
OrElse(a, b) == IF a # <<>> THEN a ELSE b

\* const artistName = artistInput || "Unknown Artist"
ArtistName(raw) == OrElse(Trim(raw), UnknownArtist)

\* let uploaderName = (req.body?.uploader_name || "").trim() || null
FieldName(raw) == Trim(raw)

\* if (userData?.user) { authUserId = ...; if (!uploaderName) uploaderName =
\* user_metadata?.name || email || null }; a throw is caught and logged
FromProfile(n, reply) ==
  IF reply.kind = "user"
    THEN [n EXCEPT !.reply = reply, !.authUserId = reply.id,
                   !.uploaderName =
                      IF @ = <<>> THEN OrElse(reply.name, reply.email) ELSE @]
    ELSE [n EXCEPT !.reply = reply]

\* Mutant: the cookie is read even when a name was already found.
FromCookieOverrides(n) ==
  IF n.cookie.kind = "object"
    THEN [n EXCEPT !.uploaderName =
                      OrElse(n.cookie.name, OrElse(n.cookie.email, @))]
    ELSE n

\* if (!uploaderName && req.cookies?.user) { try { cookieUser = JSON.parse(..);
\* uploaderName = name || email || uploaderName } catch { warn } }
FromCookie(n) ==
  IF n.uploaderName = <<>> /\ n.cookie.kind = "object"
    THEN [n EXCEPT !.uploaderName =
                      OrElse(n.cookie.name, OrElse(n.cookie.email, @))]
    ELSE n

\* if (!uploaderName) uploaderName = artistName
FromArtist(n) ==
  IF n.uploaderName = <<>> THEN [n EXCEPT !.uploaderName = n.artistName] ELSE n

\* upload.js 95-116, the synchronous rest of the resolution
AfterProfile(n) == [FromArtist(FromCookie(n)) EXCEPT !.pc = "resolved"]

\* The request arrives with a file and a title; the fields are read.
NameStart(r) ==
  /\ un[r].pc \in {"idle", "done"}
  /\ \E f \in FieldValues("f"), a \in FieldValues("r"), t \in BOOLEAN, c \in Cookies :
       LET n == [IdleNaming EXCEPT !.field = f, !.artist = a, !.hasToken = t,
                                   !.cookie = c, !.artistName = ArtistName(a),
                                   !.uploaderName = FieldName(f)]
       IN  un' = [un EXCEPT ![r] = IF t THEN [n EXCEPT !.pc = "getUser"]
                                   ELSE AfterProfile(n)]
  /\ UNCHANGED <<users, playlists, playlist_songs, req, snap, prevCall,
                 tracks, objects, up, dbq, proc>>

\* await supabase.auth.getUser(token) returns or throws
NameGetUser(r) ==
  /\ un[r].pc = "getUser"
  /\ \E reply \in NameReplies :
       un' = [un EXCEPT ![r] = AfterProfile(FromProfile(@, reply))]
  /\ UNCHANGED <<users, playlists, playlist_songs, req, snap, prevCall,
                 tracks, objects, up, dbq, proc>>

\* INSERT INTO tracks (..., uploader_name, ...) VALUES (..., $3, ...)
NameInsert(r) ==
  /\ un[r].pc = "resolved"
  /\ un' = [un EXCEPT ![r] = [@ EXCEPT !.stored = un[r].uploaderName,
                                       !.pc = "done"]]
  /\ UNCHANGED <<users, playlists, playlist_songs, req, snap, prevCall,
                 tracks, objects, up, dbq, proc>>

\* The resolution reads nothing another request writes: one request is
\* followed through every combination of sources.
UploaderNext ==
  \/ \E r \in SeqReqs : NameStart(r)
  \/ \E r \in SeqReqs : NameGetUser(r)
  \/ \E r \in SeqReqs : NameInsert(r)

SpecUploader == Init /\ [][UploaderNext]_vars

\* --------------------------------------------- index.js: gracefulShutdown
\* process.on(...): the reasons gracefulShutdown is called with
Reasons ==
  {"SIGINT", "SIGTERM", "SIGQUIT", "unhandledRejection", "uncaughtException"}

\* Mutant: the guard on shuttingDown is missing.
AlreadyShuttingDownNever(p) == FALSE

\* if (shuttingDown) return
AlreadyShuttingDown(p) == p.shuttingDown

\* shuttingDown = true; server.close(cb), whose error goes to the callback;
\* io.close() is called and awaited
BeginShutdown(p, reason, serverErr) ==
  [p EXCEPT !.shuttingDown = TRUE,
            !.first = IF p.first = "none" THEN reason ELSE p.first,
            !.serverErr = serverErr,
            !.steps = p.steps \o <<"server.close", "io.close">>,
            !.pc = "ioClose"]

\* A signal, an unhandled rejection or an uncaught exception arrives while
\* the process lives.
Trigger(reason) ==
  /\ proc.pc # "exited"
  /\ proc.triggers < MaxTriggers
  /\ \/ /\ AlreadyShuttingDown(proc)
        /\ proc' = [proc EXCEPT !.triggers = @ + 1, !.ignored = @ + 1]
     \/ /\ ~AlreadyShuttingDown(proc)
        /\ \E serverErr \in BOOLEAN :
             proc' = [BeginShutdown(proc, reason, serverErr)
                        EXCEPT !.triggers = @ + 1]
  /\ UNCHANGED <<users, playlists, playlist_songs, req, snap, prevCall,
                 tracks, objects, up, dbq, un>>

\* await io.close() returns, or throws into the inner catch; then
\* shutdownDB() calls shutdownPool(), which awaits pool.end()
IoCloseReturn ==
  /\ proc.pc = "ioClose"
  /\ \E ok \in BOOLEAN :
       proc' = [proc EXCEPT !.ioThrew = ~ok,
                            !.steps = proc.steps \o <<"pool.end">>,
                            !.pc = "poolEnd"]
  /\ UNCHANGED <<users, playlists, playlist_songs, req, snap, prevCall,
                 tracks, objects, up, dbq, un>>

\* await pool.end() returns, or throws into shutdownPool's catch; finally
\* setTimeout(() => process.exit(0), 250)
PoolEndReturn ==
  /\ proc.pc = "poolEnd"
  /\ \E ok \in BOOLEAN :
       proc' = [proc EXCEPT !.dbThrew = ~ok,
                            !.steps = proc.steps \o <<"exit scheduled">>,
                            !.pc = "exitScheduled"]
  /\ UNCHANGED <<users, playlists, playlist_songs, req, snap, prevCall,
                 tracks, objects, up, dbq, un>>

\* The timer fires: process.exit(0)
Exit ==
  /\ proc.pc = "exitScheduled"
  /\ proc' = [proc EXCEPT !.pc = "exited"]
  /\ UNCHANGED <<users, playlists, playlist_songs, req, snap, prevCall,
                 tracks, objects, up, dbq, un>>

ShutdownNext ==
  \/ \E reason \in Reasons : Trigger(reason)
  \/ IoCloseReturn
  \/ PoolEndReturn
  \/ Exit

SpecShutdown == Init /\ [][ShutdownNext]_vars

\* ================================================================ claims
IsMember(songs, p, t) ==
  \E i \in DOMAIN songs : songs[i].playlist_id = p /\ songs[i].track_id = t

SongsOf(songs, p) ==
  LET In(row) == row.playlist_id = p IN SelectSeq(songs, In)

PlaylistIds(songs) == {songs[i].playlist_id : i \in DOMAIN songs}

Done(q) == q.pc = "done"

Owns(p, userId) ==
  \E i \in DOMAIN playlists :
    playlists[i].id = p /\ playlists[i].user_id = userId

\* ---- C1
\* C1: a resolution whose INSERT INTO users is rejected by the uniqueness
\* constraint re-resolves by lookup: it ends up with the id of the row the
\* winner inserted, and its request is answered neither 401 nor 500.
C1_DuplicateInsertReResolved ==
  \A r \in Reqs :
    req[r].why = "duplicate" =>
      /\ req[r].userId # Null
      /\ req[r].userId = LookupUser(req[r].sub)
      /\ req[r].status \notin {401, 500}

\* ---- C2
\* C2: in every reachable state the users table holds at most one row per
\* auth_user_id.
C2_OneRowPerSubject ==
  \A i, j \in DOMAIN users :
    users[i].auth_user_id = users[j].auth_user_id => i = j

\* Two resolutions of one subject raced and the second insert was rejected.
C2_Witness ==
  \E r \in Reqs :
    /\ req[r].why = "duplicate"
    /\ \E i \in DOMAIN users : users[i].auth_user_id = req[r].sub

\* ---- C3
\* C3: in every reachable state each (playlist_id, track_id) pair appears at
\* most once in playlist_songs, whatever the interleaving of adds and removes.
C3_PairAtMostOnce ==
  \A i, j \in DOMAIN playlist_songs :
    (/\ playlist_songs[i].playlist_id = playlist_songs[j].playlist_id
     /\ playlist_songs[i].track_id = playlist_songs[j].track_id) => i = j

\* Two adds of the same pair both went through their insert; one created the row.
C3_Witness ==
  \E r1, r2 \in Reqs :
    /\ r1 # r2
    /\ Done(req[r1]) /\ Done(req[r2])
    /\ req[r1].kind = "add" /\ req[r2].kind = "add"
    /\ req[r1].status = 200 /\ req[r2].status = 200
    /\ req[r1].pl = req[r2].pl /\ req[r1].tr = req[r2].tr
    /\ req[r1].inserted /\ ~req[r2].inserted
    /\ IsMember(playlist_songs, req[r1].pl.val, req[r1].tr.val)

\* ---- C4
\* C4: every step that changes the membership rows of a playlist p is the
\* insert or delete of a request whose resolved user id is p's user_id.
C4_OnlyOwnerMutates ==
  [][\A p \in PlaylistIds(playlist_songs) \cup PlaylistIds(playlist_songs') :
       SongsOf(playlist_songs', p) # SongsOf(playlist_songs, p) =>
         \E r \in Reqs :
           /\ req[r].pc \in {"insertSong", "deleteSong"}
           /\ Done(req'[r])
           /\ req[r].pl.val = p
           /\ Owns(p, req[r].userId)]_vars

\* The owner has added a track while another user's attempt was refused.
C4_Witness ==
  /\ playlist_songs # <<>>
  /\ \E r1, r2 \in Reqs :
       /\ Done(req[r1]) /\ req[r1].kind = "add" /\ req[r1].inserted
       /\ Done(req[r2]) /\ req[r2].kind \in {"add", "remove"}
       /\ req[r2].status = 403
       /\ req[r2].pl = req[r1].pl
       /\ req[r2].userId # req[r1].userId

\* ---- C5
AuthenticatedNonOwner(q) ==
  /\ Done(q)
  /\ q.kind \in {"add", "remove"}
  /\ q.userId # Null
  /\ NumberIsInteger(q.pl)
  /\ ~Owns(q.pl.val, q.userId)
  /\ ~q.dbErr

\* C5 as stated: an authenticated caller who does not own playlistId is
\* answered 403 by add and remove for every trackId value.
C5_ForbiddenForEveryTrackId ==
  \A r \in Reqs : AuthenticatedNonOwner(req[r]) => req[r].status = 403

\* C5 amended: an authenticated caller who does not own the (integer)
\* playlistId is answered 403 by add and remove for every trackId that parses
\* as an integer, when the ownership lookup itself does not fail; a trackId
\* that does not parse is answered 400 before the ownership lookup.
C5_ForbiddenForIntegerTrackId ==
  \A r \in Reqs :
    AuthenticatedNonOwner(req[r]) =>
      req[r].status = (IF NumberIsInteger(req[r].tr) THEN 403 ELSE 400)

\* A user was refused on a playlist that exists and belongs to someone else.
C5_Witness ==
  \E r \in Reqs :
    /\ AuthenticatedNonOwner(req[r])
    /\ NumberIsInteger(req[r].tr)
    /\ req[r].status = 403
    /\ PlaylistRows(req[r].pl.val) # {}

\* ---- C6
\* The call completed as the owner of its playlist with no collaborator failing.
OwnerCall(q, kind) ==
  /\ Done(q)
  /\ q.kind = kind
  /\ q.userId # Null
  /\ NumberIsInteger(q.pl) /\ NumberIsInteger(q.tr)
  /\ Owns(q.pl.val, q.userId)
  /\ ~q.dbErr

SamePair(q1, q2) == q1.pl = q2.pl /\ q1.tr = q2.tr

\* C6: with calls made in sequence, an owner's addTrack succeeds; it reports
\* inserted=true when the pair was not a member; and the add that follows an
\* inserting add of the same pair reports inserted=false and leaves the
\* membership rows as the first add left them.
C6_AddTwiceInSequence ==
  \A r \in Reqs :
    OwnerCall(req[r], "add") =>
      /\ req[r].status = 200
      /\ ~IsMember(snap.songs, req[r].pl.val, req[r].tr.val) =>
           /\ req[r].inserted
           /\ playlist_songs =
                Append(snap.songs, [playlist_id |-> req[r].pl.val,
                                    track_id |-> req[r].tr.val])
      /\ (/\ OwnerCall(prevCall, "add")
          /\ prevCall.inserted
          /\ SamePair(prevCall, req[r])) =>
           /\ ~req[r].inserted
           /\ playlist_songs = snap.songs

C6_Witness ==
  \E r \in Reqs :
    /\ OwnerCall(req[r], "add")
    /\ OwnerCall(prevCall, "add")
    /\ prevCall.inserted
    /\ SamePair(prevCall, req[r])
    /\ req[r].status = 200
    /\ ~req[r].inserted

\* ---- C7
\* C7: with calls made in sequence, an owner's removeTrack succeeds; on a pair
\* that is not a member it reports 0 deleted rows and leaves the membership
\* rows unchanged; and a remove that follows a remove of the same pair changes
\* nothing more.
C7_RemoveIdempotent ==
  \A r \in Reqs :
    OwnerCall(req[r], "remove") =>
      /\ req[r].status = 200
      /\ ~IsMember(playlist_songs, req[r].pl.val, req[r].tr.val)
      /\ ~IsMember(snap.songs, req[r].pl.val, req[r].tr.val) =>
           /\ req[r].deleted = 0
           /\ playlist_songs = snap.songs
      /\ (OwnerCall(prevCall, "remove") /\ SamePair(prevCall, req[r])) =>
           /\ req[r].deleted = 0
           /\ playlist_songs = snap.songs

\* A member pair was removed twice over while another track stayed a member.
C7_Witness ==
  \E r \in Reqs :
    /\ OwnerCall(req[r], "remove")
    /\ OwnerCall(prevCall, "remove")
    /\ SamePair(prevCall, req[r])
    /\ prevCall.deleted = 1
    /\ req[r].deleted = 0
    /\ playlist_songs # <<>>

\* ---- C8
RowsFor(tbl, sub) == {i \in DOMAIN tbl : tbl[i].auth_user_id = sub}

\* The provider named a subject and no statement of the resolution failed
\* for a reason of the datastore's own.
Resolution(q) == Done(q) /\ q.sub # Null /\ q.why # "db-error"

\* C8: with calls made in sequence, a resolution returns the id of the one
\* users row of its subject: it inserts that row when the subject had none, and
\* inserts nothing when it had one; a resolution that follows one of the same
\* subject returns the same id.
C8_ResolveTwiceInSequence ==
  \A r \in Reqs :
    Resolution(req[r]) =>
      /\ req[r].why = "none"
      /\ req[r].userId # Null
      /\ \E i \in RowsFor(users, req[r].sub) :
           /\ users[i].id = req[r].userId
           /\ RowsFor(users, req[r].sub) = {i}
      /\ RowsFor(snap.users, req[r].sub) = {} =>
           users = Append(snap.users, [id |-> req[r].userId,
                                       auth_user_id |-> req[r].sub])
      /\ RowsFor(snap.users, req[r].sub) # {} => users = snap.users
      /\ (Resolution(prevCall) /\ prevCall.sub = req[r].sub) =>
           /\ req[r].userId = prevCall.userId
           /\ users = snap.users

\* The first resolution inserted the row and the second found it.
C8_Witness ==
  \E r \in Reqs :
    /\ Resolution(req[r])
    /\ Resolution(prevCall)
    /\ prevCall.sub = req[r].sub
    /\ req[r].userId = prevCall.userId
    /\ users = snap.users
    /\ RowsFor(users, req[r].sub) # {}

\* ---- C9
NoIdentityReasons ==
  {"no-token", "provider-threw", "provider-error", "no-subject"}

\* C9: the step in which a resolution ends for want of a token, on a provider
\* failure or throw, or on an answer without a subject yields no local id,
\* inserts no users row and answers the request 401.
C9_NoIdentityIsUnauthorized ==
  [][\A r \in Reqs :
       (req'[r] # req[r] /\ req'[r].why \in NoIdentityReasons) =>
         /\ Done(req'[r])
         /\ req'[r].status = 401
         /\ req'[r].userId = Null
         /\ users' = users]_vars

\* One request was refused for a missing token and one on a provider throw.
C9_Witness ==
  \E r1, r2 \in Reqs :
    /\ Done(req[r1]) /\ req[r1].why = "no-token" /\ req[r1].status = 401
    /\ Done(req[r2]) /\ req[r2].why = "provider-threw" /\ req[r2].status = 401

\* ---- C10
\* C10: an upload whose title is empty after trimming, or that carries no
\* audio file, is answered 400 having made no object-store call, inserted no
\* tracks row and broadcast no event.
C10_InvalidUploadRejectedFirst ==
  \A r \in Reqs :
    (/\ up[r].pc # "idle"
     /\ ~up[r].hasAudio \/ Trim(up[r].title) = <<>>) =>
      /\ up[r].pc = "done"
      /\ up[r].status = 400
      /\ up[r].puts = 0
      /\ up[r].rowId = 0
      /\ up[r].ev = "none"
      /\ ~up[r].emitThrew

\* An upload without a usable title was refused while another one had
\* already written its audio object.
C10_Witness ==
  \E r1, r2 \in Reqs :
    /\ up[r1].pc = "done" /\ up[r1].hasAudio /\ up[r1].title = <<>>
    /\ up[r1].status = 400
    /\ up[r2].puts > 0
    /\ objects # {}

\* ---- C11
\* The upload's metadata insert succeeded and the response went out.
Uploaded(q) == q.pc = "done" /\ q.rowId # 0

\* C11: the track returned by an upload whose insert succeeded has a public_url
\* and a cover_url, whether the audio write succeeded or failed and whether the
\* cover was absent, written or refused.
C11_TrackUrlsNeverNull ==
  \A r \in Reqs :
    Uploaded(up[r]) =>
      /\ up[r].audioPut \in {"ok", "failed"}
      /\ up[r].coverPut \in {"none", "ok", "failed"}
      /\ up[r].track.public_url # NoUrl
      /\ up[r].track.cover_url # NoUrl

\* Both object-store writes of an upload failed and its track was returned.
C11_Witness ==
  \E r \in Reqs :
    /\ Uploaded(up[r])
    /\ up[r].audioPut = "failed" /\ up[r].coverPut = "failed"
    /\ up[r].status = 200
    /\ up[r].track.id = up[r].rowId

\* ---- C12
\* C12: the returned track of an upload whose audio write succeeded has the
\* URL the object store gave for the written key and a storage_key under
\* tracks/; when the write failed it has the fallback path and a storage_key
\* under debug/.
C12_AudioUrlAndKeyByOutcome ==
  \A r \in Reqs :
    Uploaded(up[r]) =>
      /\ up[r].audioPut = "ok" =>
           /\ up[r].track.public_url.src = "store"
           /\ up[r].track.public_url.key = up[r].track.storage_key
           /\ up[r].track.storage_key.prefix = "tracks"
           /\ up[r].track.storage_key \in objects
      /\ up[r].audioPut # "ok" =>
           /\ up[r].track.public_url = LOCAL_TEST_PATH
           /\ up[r].track.storage_key.prefix = "debug"

\* An upload whose audio write failed was answered with its track.
C12_Witness ==
  \E r \in Reqs :
    /\ Uploaded(up[r])
    /\ up[r].audioPut = "failed"
    /\ up[r].track.storage_key.prefix = "debug"
    /\ up[r].track.public_url = LOCAL_TEST_PATH

\* ---- C13
\* C13: the step that ends an upload's metadata insert either appends the row
\* and answers 200, or leaves the tracks table as it was and answers 500; in
\* the second case the request has no row, no event was handed to the channel,
\* and the object store keeps what the request wrote.
C13_InsertFailureFailsWhole ==
  [][\A r \in Reqs :
       (up[r].pc = "insertTrack" /\ up'[r].pc # "insertTrack") =>
         /\ up'[r].pc = "done"
         /\ up'[r].status \in {200, 500}
         /\ (tracks' = tracks) <=> (up'[r].status = 500)
         /\ up'[r].status = 500 =>
              /\ up'[r].rowId = 0
              /\ up'[r].track = NoTrack
              /\ up'[r].emits = 0 /\ up'[r].ev = "none"
              /\ objects' = objects
              /\ up[r].audioPut = "ok" => up[r].audioStorageKey \in objects'
              /\ up[r].coverPut = "ok" => up[r].coverPath \in objects']_vars

\* An upload wrote its audio object and then failed at the insert.
C13_Witness ==
  \E r \in Reqs :
    /\ up[r].pc = "done" /\ up[r].status = 500
    /\ up[r].audioPut = "ok"
    /\ up[r].rowId = 0 /\ up[r].emits = 0
    /\ objects # {}
    /\ tracks = <<>>

\* ---- C14
\* C14: the step in which a handler's datastore write fails (the users insert
\* of the identity resolution, the playlists insert, the membership insert or
\* delete, the tracks insert) ends the request with a 500 response.
C14_WriteFailureIsServerError ==
  [][/\ \A r \in Reqs :
          (/\ req[r].pc \in {"insertUser", "insertPlaylist", "insertSong",
                              "deleteSong"}
           /\ req'[r].dbErr) =>
            Done(req'[r]) /\ req'[r].status = 500
     /\ \A r \in Reqs :
          (up[r].pc = "insertTrack" /\ up'[r].pc = "done" /\ tracks' = tracks) =>
            up'[r].status = 500]_vars

\* ---- C15
\* C15: an upload request hands a new-track event to the channel exactly once
\* when its tracks row was inserted and never otherwise; the event is handed
\* over in the step of the insert, not before, and by the time the response is
\* out; it carries the track object of the response, which is the track of the
\* inserted row.
C15_NewTrackIffInserted ==
  \A r \in Reqs :
    /\ up[r].emits = (IF up[r].rowId # 0 THEN 1 ELSE 0)
    /\ up[r].pc # "done" => up[r].emits = 0 /\ up[r].rowId = 0
    /\ up[r].rowId # 0 =>
         /\ up[r].ev = "new-track"
         /\ up[r].status = 200
         /\ up[r].evTrack = up[r].track
         /\ up[r].track.id = up[r].rowId
         /\ \E i \in DOMAIN tracks :
              /\ tracks[i].id = up[r].rowId
              /\ tracks[i].title = up[r].track.title
              /\ tracks[i].storage_key = up[r].track.storage_key
    /\ up[r].rowId = 0 => up[r].ev = "none" /\ up[r].evTrack = NoTrack

\* One upload inserted its row and broadcast it; another failed at the insert
\* and broadcast nothing.
C15_Witness ==
  \E r1, r2 \in Reqs :
    /\ up[r1].pc = "done" /\ up[r1].rowId # 0 /\ up[r1].emits = 1
    /\ up[r1].evTrack.id = up[r1].rowId
    /\ up[r2].pc = "done" /\ up[r2].status = 500 /\ up[r2].emits = 0

\* ---- C16
\* C16: the step in which a handler's emit throws is a step that committed the
\* handler's mutation and gave its success response: 201 with the playlist
\* row, 200 with the membership row present (add) or absent (remove), 200
\* with the tracks row.
C16_BroadcastFailureSwallowed ==
  [][/\ \A r \in Reqs :
          (req'[r].emitThrew /\ req'[r] # req[r]) =>
            /\ Done(req'[r])
            /\ req'[r].kind \in {"create", "add", "remove"}
            /\ req'[r].status = (IF req'[r].kind = "create" THEN 201 ELSE 200)
            /\ req'[r].kind = "create" =>
                 /\ Len(playlists') = Len(playlists) + 1
                 /\ playlists'[Len(playlists')].user_id = req'[r].userId
            /\ req'[r].kind = "add" =>
                 /\ IsMember(playlist_songs', req'[r].pl.val, req'[r].tr.val)
                 /\ req'[r].inserted <=> playlist_songs' # playlist_songs
            /\ req'[r].kind = "remove" =>
                 /\ ~IsMember(playlist_songs', req'[r].pl.val, req'[r].tr.val)
                 /\ req'[r].deleted = Len(playlist_songs) - Len(playlist_songs')
     /\ \A r \in Reqs :
          (up'[r].emitThrew /\ up'[r] # up[r]) =>
            /\ up'[r].pc = "done"
            /\ up'[r].status = 200
            /\ tracks' = Append(tracks, tracks'[Len(tracks')])
            /\ tracks'[Len(tracks')].id = up'[r].rowId
            /\ up'[r].track.id = up'[r].rowId]_vars

\* An add whose emit threw created the row and answered 200.
C16_Witness ==
  \E r \in Reqs :
    /\ Done(req[r]) /\ req[r].kind = "add" /\ req[r].emitThrew
    /\ req[r].inserted /\ req[r].status = 200
    /\ IsMember(playlist_songs, req[r].pl.val, req[r].tr.val)

\* ---- C17
\* What an upload has done so far, as the number of the last step it completed:
\* nothing of the store yet (0), the audio write (1), the cover step (2), the
\* insert, broadcast and response (3).
UploadProgress(q) ==
  IF q.rowId # 0 \/ q.emits # 0 THEN 3
  ELSE IF q.coverPut # "none" THEN 2
  ELSE IF q.audioPut # "none" THEN 1 ELSE 0

\* C17: an upload waiting for the identity provider has touched neither the
\* object store nor the tracks table; one waiting for the object store has no
\* row and no event; one waiting for the insert has had each of its store
\* writes return or fail; a row and an event exist only for a request that
\* went through all of these and was answered.
C17_UploadStepsInOrder ==
  \A r \in Reqs :
    /\ up[r].pc = "getUser" => UploadProgress(up[r]) = 0 /\ up[r].puts = 0
    /\ up[r].pc = "uploadAudio" => UploadProgress(up[r]) = 0 /\ up[r].puts = 0
    /\ up[r].pc = "uploadCover" =>
         /\ UploadProgress(up[r]) = 1
         /\ up[r].hasCover /\ up[r].puts = 1
    /\ up[r].pc = "insertTrack" =>
         /\ up[r].audioPut # "none"
         /\ up[r].hasCover <=> up[r].coverPut # "none"
         /\ up[r].puts = (IF up[r].hasCover THEN 2 ELSE 1)
         /\ up[r].rowId = 0 /\ up[r].emits = 0
    /\ UploadProgress(up[r]) = 3 =>
         /\ up[r].pc = "done"
         /\ up[r].audioPut # "none"
         /\ up[r].hasCover <=> up[r].coverPut # "none"
         /\ up[r].rowId # 0 /\ up[r].emits = 1
    /\ up[r].status # 0 <=> up[r].pc = "done"

\* An upload with a cover is waiting for its insert, both writes behind it,
\* while another is still waiting for the identity provider.
C17_Witness ==
  \E r1, r2 \in Reqs :
    /\ up[r1].pc = "insertTrack" /\ up[r1].hasCover /\ up[r1].puts = 2
    /\ up[r2].pc = "getUser"

\* ---- C18
\* C18: the step that ends the delete of a removeTrack request (reached only
\* past the authentication and ownership checks) without a datastore failure
\* answers 200 and hands exactly one playlist-updated event with removed: true
\* to the channel, whether or not a row was deleted.
C18_RemoveAlwaysBroadcasts ==
  [][\A r \in Reqs :
       (/\ req[r].pc = "deleteSong"
        /\ req'[r].pc # "deleteSong"
        /\ ~req'[r].dbErr) =>
         /\ req[r].userId # Null
         /\ Owns(req[r].pl.val, req[r].userId)
         /\ Done(req'[r])
         /\ req'[r].status = 200
         /\ req'[r].deleted = Len(playlist_songs) - Len(playlist_songs')
         /\ req'[r].emits = 1
         /\ req'[r].ev.name = "playlist-updated"
         /\ req'[r].ev.removed
         /\ ~req'[r].ev.added]_vars

\* A remove of a pair that was not a member deleted nothing and still
\* broadcast removed: true.
C18_Witness ==
  \E r \in Reqs :
    /\ OwnerCall(req[r], "remove")
    /\ req[r].deleted = 0
    /\ req[r].ev.name = "playlist-updated" /\ req[r].ev.removed

\* ---- C19
\* C19: the step that ends an addTrack request with 200 hands exactly one
\* playlist-updated event to the channel, whose added flag is the inserted
\* flag of the response; the flag is true exactly when the step appended the
\* membership row, which is exactly when the pair was not a member before.
C19_AddedFlagIsInserted ==
  [][\A r \in Reqs :
       (req[r].pc = "insertSong" /\ req'[r].status = 200) =>
         LET row == [playlist_id |-> req[r].pl.val, track_id |-> req[r].tr.val]
         IN  /\ req'[r].emits = 1
             /\ req'[r].ev.name = "playlist-updated"
             /\ ~req'[r].ev.removed
             /\ req'[r].ev.added = req'[r].inserted
             /\ req'[r].inserted <=>
                  ~IsMember(playlist_songs, row.playlist_id, row.track_id)
             /\ playlist_songs' =
                  (IF req'[r].inserted THEN Append(playlist_songs, row)
                   ELSE playlist_songs)]_vars

\* Two adds of one pair succeeded: the first broadcast added: true, the
\* second added: false.
C19_Witness ==
  \E r1, r2 \in Reqs :
    /\ r1 # r2
    /\ Done(req[r1]) /\ req[r1].kind = "add" /\ req[r1].status = 200
    /\ Done(req[r2]) /\ req[r2].kind = "add" /\ req[r2].status = 200
    /\ SamePair(req[r1], req[r2])
    /\ req[r1].ev.added /\ req[r1].inserted
    /\ ~req[r2].ev.added /\ ~req[r2].inserted
    /\ req[r2].emits = 1

\* ---- C20
\* The audio write of request r returns in this step and the store already
\* holds an object under the request's key.
CollidingWrite(r) ==
  /\ up[r].pc = "uploadAudio"
  /\ up'[r].pc # "uploadAudio"
  /\ up[r].audioStorageKey \in objects

\* C20 as stated: the audio write of an upload whose key the store already
\* holds succeeds, and the upload keeps its tracks/ key.
C20_CollisionOverwrites ==
  [][\A r \in Reqs :
       CollidingWrite(r) =>
         /\ up'[r].audioPut = "ok"
         /\ up'[r].audioStorageKey.prefix = "tracks"]_vars

\* C20 amended: the audio write of an upload whose key the store already holds
\* is refused; the store is left as it was and the upload takes the failure
\* fallback, the fallback path as its URL and a debug/ key.
C20_CollisionRefused ==
  [][\A r \in Reqs :
       CollidingWrite(r) =>
         /\ up'[r].audioPut = "failed"
         /\ objects' = objects
         /\ up'[r].audioUrl = LOCAL_TEST_PATH
         /\ up'[r].audioStorageKey.prefix = "debug"
         /\ up'[r].audioStorageKey.ts = up[r].audioStorageKey.ts
         /\ up'[r].audioStorageKey.name = up[r].audioStorageKey.name]_vars

\* Two uploads computed one key: one wrote the object, the other is on the
\* fallback with the debug/ twin of that key.
C20_Witness ==
  \E r1, r2 \in Reqs :
    /\ r1 # r2
    /\ up[r1].audioPut = "ok"
    /\ up[r1].audioStorageKey \in objects
    /\ up[r2].audioPut = "failed"
    /\ up[r2].audioStorageKey =
         [up[r1].audioStorageKey EXCEPT !.prefix = "debug"]

\* ---- C21
\* C21: every connection has been released once for each time it was checked
\* out, except the one checkout of a connection a query still holds; a
\* connection is out exactly while one query holds it between its connect and
\* the end of its statement, whether the statement returned or threw; when no
\* query is in flight, no connection is out.
C21_ReleasedExactlyOnce ==
  /\ \A k \in Conns :
       /\ dbq.acquired[k] - dbq.released[k] = (IF k \in dbq.out THEN 1 ELSE 0)
       /\ Cardinality({c \in Reqs : dbq.call[c].pc = "query"
                                    /\ dbq.call[c].client = k})
            = (IF k \in dbq.out THEN 1 ELSE 0)
  /\ \A c \in Reqs :
       dbq.call[c].pc = "query" => dbq.call[c].client \in dbq.out
  /\ (\A c \in Reqs : dbq.call[c].pc \in {"idle", "done"}) => dbq.out = {}

\* One query threw and one returned; both are over and the pool is whole.
C21_Witness ==
  \E c1, c2 \in Reqs :
    /\ dbq.call[c1].pc = "done" /\ dbq.call[c1].outcome = "threw"
    /\ dbq.call[c2].pc = "done" /\ dbq.call[c2].outcome = "returned"
    /\ dbq.out = {}
    /\ \E k \in Conns : dbq.released[k] >= 2

\* ---- C22
\* C22: when every awaited call returns or throws, a request of the list,
\* create, add, remove or upload handler that is waiting on a call is
\* eventually answered, whatever the calls answer.
C22_EveryRequestAnswered ==
  \A r \in Reqs :
    /\ (req[r].pc \notin {"idle", "done"}) ~> Done(req[r])
    /\ (up[r].pc \notin {"idle", "done"}) ~> (up[r].pc = "done")

\* A remove was answered 500 after its delete failed, with rows in the table.
C22_Witness ==
  \E r \in Reqs :
    /\ Done(req[r]) /\ req[r].kind = "remove"
    /\ req[r].dbErr /\ req[r].status = 500
    /\ req[r].userId # Null /\ Owns(req[r].pl.val, req[r].userId)
    /\ playlist_songs # <<>>

\* ---- C23
\* The name stored with a track is the first non-empty one of: the
\* uploader_name field (trimmed), the profile's name, the profile's email,
\* the cookie's name, the cookie's email, the resolved artist name.  A source
\* that is missing, or whose read failed (the provider threw or gave no user,
\* the cookie did not parse), counts as empty and nothing else changes.
FirstNonEmpty(seq) ==
  LET hits == {i \in DOMAIN seq : seq[i] # <<>>}
  IN  IF hits = {} THEN <<>>
      ELSE seq[CHOOSE i \in hits : \A j \in hits : i <= j]

NameSources(n) ==
  LET profile == IF n.hasToken /\ n.reply.kind = "user" THEN n.reply ELSE NoReply
      cookie == IF n.cookie.kind = "object" THEN n.cookie ELSE NoCookie
      artist == IF Trim(n.artist) = <<>> THEN UnknownArtist ELSE Trim(n.artist)
  IN  <<Trim(n.field), profile.name, profile.email, cookie.name, cookie.email,
        artist>>

C23_UploaderNameFirstNonEmpty ==
  \A r \in Reqs :
    un[r].pc = "done" => un[r].stored = FirstNonEmpty(NameSources(un[r]))

\* The field was blank, the provider threw, the cookie carried a name and an
\* email: the cookie's name was stored.
C23_Witness ==
  \E r \in Reqs :
    /\ un[r].pc = "done" /\ un[r].field = <<" ">> /\ un[r].hasToken
    /\ un[r].reply.kind = "threw"
    /\ un[r].cookie.kind = "object" /\ un[r].cookie.name = <<"c">>
    /\ un[r].cookie.email = <<"m">>
    /\ un[r].stored = <<"c">>

\* ---- C24
\* A playlist request answered 400, 401 or 403 changed neither the playlists
\* nor the membership table and broadcast nothing: the step that answers so
\* leaves both tables as they were and the request has emitted no event, and
\* every step that does change one of the two tables is the last step of a
\* request answered 200 or 201.
Refusals == {400, 401, 403}

Answers(r, codes) ==
  /\ req[r].pc \notin {"idle", "done"} \/ req'[r] # req[r]
  /\ req'[r].pc = "done"
  /\ req'[r].status \in codes

RefusalStep ==
  /\ \A r \in Reqs :
       (req'[r] # req[r] /\ Answers(r, Refusals))
         => /\ playlists' = playlists
            /\ playlist_songs' = playlist_songs
            /\ req'[r].emits = 0
            /\ req'[r].ev = NoEvent
  /\ (playlists' # playlists \/ playlist_songs' # playlist_songs)
       => (\E r \in Reqs :
             /\ req[r].pc \in {"insertPlaylist", "insertSong", "deleteSong"}
             /\ Answers(r, {200, 201}))

C24_RefusalChangesNothing == [][RefusalStep]_vars

\* A request was refused 403 and another 400 while a playlist with a member
\* existed.
C24_Witness ==
  /\ playlists # <<>>
  /\ playlist_songs # <<>>
  /\ \E r1, r2 \in Reqs :
       /\ Done(req[r1]) /\ req[r1].status = 403 /\ req[r1].emits = 0
       /\ Done(req[r2]) /\ req[r2].status = 400 /\ req[r2].emits = 0

\* ---- C25
\* A create that reached its insert has a resolved identity and a name that
\* is non-empty after trimming; unless the datastore fails, the insert adds
\* exactly one row, owned by the caller's local id, one playlist-created event
\* is broadcast and the answer is 201.  No step of any operation changes the
\* id or the user_id of a row already in the table.
CreateStep(r) ==
  /\ req[r].userId # Null
  /\ \E i \in DOMAIN users :
       users[i].id = req[r].userId /\ users[i].auth_user_id = req[r].sub
  /\ req[r].name # <<>>
  /\ ~req'[r].dbErr
       => /\ Len(playlists') = Len(playlists) + 1
          /\ playlists'[Len(playlists')].user_id = req[r].userId
          /\ playlists'[Len(playlists')].name = req[r].name
          /\ req'[r].pc = "done"
          /\ req'[r].status = 201
          /\ req'[r].emits = 1
          /\ req'[r].ev.name = "playlist-created"

NeverReassigned ==
  \A i \in DOMAIN playlists :
    /\ i \in DOMAIN playlists'
    /\ playlists'[i].id = playlists[i].id
    /\ playlists'[i].user_id = playlists[i].user_id

CreateOwnedStep ==
  /\ NeverReassigned
  /\ \A r \in Reqs :
       (req[r].pc = "insertPlaylist" /\ req'[r] # req[r]) => CreateStep(r)

C25_CreateOwnedNeverReassigned == [][CreateOwnedStep]_vars

\* The second user created a playlist, and an add on it was answered later.
C25_Witness ==
  \E r1, r2 \in Reqs :
    /\ r1 # r2
    /\ Done(req[r1]) /\ req[r1].kind = "create" /\ req[r1].status = 201
    /\ req[r1].emits = 1 /\ req[r1].userId = 2
    /\ playlists # <<>> /\ playlists[1].user_id = 2
    /\ Done(req[r2]) /\ req[r2].kind = "add" /\ req[r2].status = 200
    /\ req[r2].pl.val = playlists[1].id

\* ---- C26
\* Two adds of one (playlist, track) pair by the playlist's owner, the later
\* of which arrived while the pair was not yet a member (so the earlier had
\* not inserted yet: they ran concurrently), and neither of which met a
\* datastore failure: both are answered 200, each broadcasts one event whose
\* added flag is its inserted flag, and exactly one of them has
\* inserted = true.
OwnerAdd(r) ==
  /\ Done(req[r]) /\ req[r].kind = "add" /\ ~req[r].dbErr
  /\ req[r].userId # Null
  /\ ~req[r].pl.nan /\ ~req[r].tr.nan
  /\ Owns(req[r].pl.val, req[r].userId)
  /\ ~IsMember(snap.songs, req[r].pl.val, req[r].tr.val)

RacingAdds(r1) ==
  {r \in Reqs : /\ OwnerAdd(r1) /\ OwnerAdd(r)
                /\ req[r].pl = req[r1].pl /\ req[r].tr = req[r1].tr}

C26_ConcurrentAddsOneInserted ==
  \A r1 \in Reqs :
    Cardinality(RacingAdds(r1)) >= 2
      => /\ Cardinality({r \in RacingAdds(r1) : req[r].inserted}) = 1
         /\ \A r \in RacingAdds(r1) :
              /\ req[r].status = 200
              /\ req[r].emits = 1
              /\ req[r].ev.name = "playlist-updated"
              /\ req[r].ev.added = req[r].inserted

\* Both adds were answered; the one in the second slot inserted the row.
C26_Witness ==
  \E r1, r2 \in Reqs :
    /\ r1 < r2
    /\ r2 \in RacingAdds(r1)
    /\ req[r2].inserted /\ ~req[r1].inserted
    /\ IsMember(playlist_songs, req[r1].pl.val, req[r1].tr.val)

\* ---- C27
\* Whatever triggers arrive, the calls of the shutdown sequence are an initial
\* part of: server close, socket close, pool shutdown, exit scheduled, each
\* made once; the first trigger sets shuttingDown and every later one is
\* ignored; the exit is scheduled after all three closes, whether or not they
\* failed; a trigger that finds shuttingDown set changes nothing.
ShutdownOrder == <<"server.close", "io.close", "pool.end", "exit scheduled">>

ShutdownOnce(p) ==
  /\ Len(p.steps) <= Len(ShutdownOrder)
  /\ p.steps = SubSeq(ShutdownOrder, 1, Len(p.steps))
  /\ p.shuttingDown <=> p.triggers >= 1
  /\ p.shuttingDown <=> p.steps # <<>>
  /\ p.triggers >= 1 => p.ignored = p.triggers - 1
  /\ p.pc \in {"exitScheduled", "exited"} <=> p.steps = ShutdownOrder

LaterTriggerIgnored ==
  (proc.shuttingDown /\ proc'.triggers # proc.triggers)
    => proc' = [proc EXCEPT !.triggers = proc.triggers + 1,
                            !.ignored = proc.ignored + 1]

ShutdownStep == ShutdownOnce(proc') /\ LaterTriggerIgnored

C27_ShutdownRunsOnce == [][ShutdownStep]_vars

\* The exit was scheduled after a socket close and a pool shutdown that both
\* failed, and two later triggers were ignored.
C27_Witness ==
  /\ proc.pc \in {"exitScheduled", "exited"}
  /\ proc.ioThrew /\ proc.dbThrew /\ proc.serverErr
  /\ proc.first = "uncaughtException"
  /\ proc.ignored = 2
  /\ proc.steps = ShutdownOrder

====
